---------------------------- MODULE Spec2Model ----------------------------
(* Hybrid recommendation engine: the aggregator get_hybrid_recommendations *)
(* with its five candidate generators, the TTL cache keyed by user, the    *)
(* diversity round robin, the explanation lookup and the batch pass that   *)
(* precomputes the cache for every user.                                   *)
EXTENDS Integers, Sequences, FiniteSets, TLC

VARIABLES
    purchases,     \* purchase_history rows: [user, product, ts], quantity 1 each
    browsing,      \* browsing_history rows: [user, product]
    interactions,  \* user_interactions rows: [user, product]
    rowOrder,      \* order in which the store returns product rows of an unordered query
    today,         \* utcnow(): [month, day, weekday]
    now,           \* utcnow() in seconds since the start of the run
    cache,         \* redis: user id -> serialized entry with its expiry
    call,          \* per caller: the get_hybrid_recommendations invocation in flight or last returned
    batchpc,       \* precompute_recommendations: "idle", "running", "done", "aborted"
    queue,         \* precompute_recommendations: user ids the for loop has not finished
    expl,          \* last explain_recommendation call: [user, product, result]
    direct         \* last direct call of a generator or of a cache function

vars == <<purchases, browsing, interactions, rowOrder, today, now, cache,
          call, batchpc, queue, expl, direct>>

store == <<purchases, browsing, interactions, rowOrder, today>>

-----------------------------------------------------------------------------
(* Bounds of the model *)

MaxLimit == 2        \* request limits are 1..MaxLimit
MaxPurchases == 3    \* purchase rows the store may hold
MaxTicks == 2        \* clock advances
MaxCandidate == 7    \* candidate ids handed to enforce_diversity alone are 0..MaxCandidate
MaxDivLimit == 4     \* limits handed to enforce_diversity alone are 1..MaxDivLimit

(* Program constants *)

CACHE_EXPIRATION == 3600
TrendingDays == 30
BatchLimit == 10
SvdMaxRank == 10

DaySeconds == 86400
TrendingWindow == TrendingDays * DaySeconds
\* timestamps of purchase rows are kept to the day
DayOf(t) == (t \div DaySeconds) * DaySeconds
TickSeconds == CACHE_EXPIRATION \div 2

None == 0 - 1        \* Python None as a user id

-----------------------------------------------------------------------------
(* The catalog: rows of the users, products and contextual_signals tables *)

Users == {1, 2}
UserRows == <<1, 2>>
Devices == <<"Mobile", "Desktop", "Tablet">>
Device(u) == Devices[(u % 3) + 1]

Products == 1..10
Categories == <<"Electronics", "Clothing", "Books">>
Category(p) == Categories[(p % 3) + 1]
Rating(p) == 6 + (p % 5)
MetaDevice(p) == IF p % 5 = 0 THEN "Desktop" ELSE "none"

Signals ==
    { [category |-> "Electronics", peak_days |-> {"Monday", "Wednesday", "Friday"}, season |-> "Winter"],
      [category |-> "Clothing", peak_days |-> {"Saturday", "Sunday"}, season |-> "Summer"],
      [category |-> "Books", peak_days |-> {"Friday", "Saturday"}, season |-> "Spring"] }

-----------------------------------------------------------------------------
(* Sequence helpers *)

Min(a, b) == IF a < b THEN a ELSE b

Range(s) == { s[i] : i \in DOMAIN s }

Take(s, n) == SubSeq(s, 1, Min(n, Len(s)))

IsDistinct(s) == \A i, j \in DOMAIN s : i # j => s[i] # s[j]

RECURSIVE Flatten(_)
Flatten(ss) == IF ss = <<>> THEN <<>> ELSE Head(ss) \o Flatten(Tail(ss))

\* the rows of an unordered query over products, restricted to the set S
RowsIn(S) == SelectSeq(rowOrder, LAMBDA p : p \in S)

\* the ids 1..n in ascending order (a sorted pandas index)
Ascending(S) == SelectSeq([i \in Products |-> i], LAMBDA p : p \in S)

\* base ordered by key descending, ties in base order (keys in 0..top)
RECURSIVE ByKeyDesc(_, _, _)
ByKeyDesc(base, key, top) ==
    IF top < 0 THEN <<>>
    ELSE SelectSeq(base, LAMBDA p : key[p] = top) \o ByKeyDesc(base, key, top - 1)

-----------------------------------------------------------------------------
(* get_current_season *)

get_current_season(month, day, weekday) ==
    IF (month = 12 /\ day >= 24) \/ (month = 12 /\ day <= 26) THEN "Christmas"
    ELSE IF (month = 11 /\ day >= 22 /\ day <= 28) /\ weekday = "Thursday" THEN "Thanksgiving"
    ELSE IF month = 10 /\ day = 31 THEN "Halloween"
    ELSE IF month = 2 /\ day = 14 THEN "Valentine's Day"
    ELSE IF (month = 12 /\ day >= 21) \/ month \in {1, 2} \/ (month = 3 /\ day < 20) THEN "Winter"
    ELSE IF (month = 3 /\ day >= 20) \/ month \in {4, 5} \/ (month = 6 /\ day < 21) THEN "Spring"
    ELSE IF (month = 6 /\ day >= 21) \/ month \in {7, 8} \/ (month = 9 /\ day < 22) THEN "Summer"
    ELSE IF (month = 9 /\ day >= 22) \/ month \in {10, 11} \/ (month = 12 /\ day < 21) THEN "Fall"
    ELSE "Unknown"

current_season == get_current_season(today.month, today.day, today.weekday)

\* categories of the contextual signals matching the current weekday or season
RelevantCategories ==
    { s.category : s \in { x \in Signals :
                             today.weekday \in x.peak_days \/ x.season = current_season } }

-----------------------------------------------------------------------------
(* Store reads *)

PurchasedBy(u) == { e.product : e \in { x \in purchases : x.user = u } }
BrowsedBy(u) == { e.product : e \in { x \in browsing : x.user = u } }
InteractedBy(u) == { e.product : e \in { x \in interactions : x.user = u } }

get_interacted_product_ids(u) ==
    IF u = None THEN {} ELSE PurchasedBy(u) \cup BrowsedBy(u) \cup InteractedBy(u)

\* purchase rows of product p inside the trailing window
RecentCount(p) ==
    Cardinality({ e \in purchases : e.product = p /\ e.ts >= now - TrendingWindow })

\* the ranking as it would be without the .limit(limit) of the query
TrendingUncut(u, limit) ==
    LET excl == get_interacted_product_ids(u)
        cnt == [p \in Products |-> IF p \in excl THEN 0 ELSE RecentCount(p)]
        ranked == ByKeyDesc(rowOrder, cnt, Cardinality(purchases))
    IN SelectSeq(ranked, LAMBDA p : cnt[p] > 0)

get_trending_products(u, limit) ==
    LET excl == get_interacted_product_ids(u)
        cnt == [p \in Products |-> IF p \in excl THEN 0 ELSE RecentCount(p)]
        ranked == ByKeyDesc(rowOrder, cnt, Cardinality(purchases))
    IN Take(SelectSeq(ranked, LAMBDA p : cnt[p] > 0), limit)

-----------------------------------------------------------------------------
(* Candidate generators *)

PurchaseUsers == { e.user : e \in purchases }
PurchasedProducts == { e.product : e \in purchases }

\* user_product_matrix: every purchase row has quantity 1, so the row of user v
\* is the indicator vector of PurchasedBy(v)
Dot(v, w) == Cardinality(PurchasedBy(v) \cap PurchasedBy(w))
Norm2(v) == Cardinality(PurchasedBy(v))

\* cosine_similarity(u, v) > cosine_similarity(u, w), compared without roots
MoreSimilar(u, v, w) == Dot(u, v) * Dot(u, v) * Norm2(w) > Dot(u, w) * Dot(u, w) * Norm2(v)

\* user_similarity_df[u].sort_values(ascending=False).index: descending, ties in index order
SimilarityOrder(u) ==
    LET before(v, w) == MoreSimilar(u, v, w) \/ (~MoreSimilar(u, w, v) /\ v < w)
        rank(v) == 1 + Cardinality({ w \in PurchaseUsers : before(w, v) })
    IN [i \in 1..Cardinality(PurchaseUsers) |-> CHOOSE v \in PurchaseUsers : rank(v) = i]

\* user_similarity_df[u].sort_values(ascending=False).index[1:limit+1]
similar_users(u, limit) ==
    LET order == SimilarityOrder(u)
    IN Range(SubSeq(order, 2, Min(limit + 1, Len(order))))

get_user_based_recommendations(u, limit) ==
    IF PurchasedBy(u) = {} THEN get_trending_products(u, limit)
    ELSE LET rows == { e \in purchases : e.user \in similar_users(u, limit) }
             cnt == [p \in Products |-> Cardinality({ e \in rows : e.product = p })]
             ranked == ByKeyDesc(rowOrder, cnt, Cardinality(purchases))
         IN Take(SelectSeq(ranked, LAMBDA p : cnt[p] > 0), limit)

\* cosine similarity of the one-column rating matrix: 1 between products with a
\* non-zero rating, 0 otherwise
Similarity(p, q) == IF Rating(p) # 0 /\ Rating(q) # 0 THEN 1 ELSE 0

get_content_based_recommendations(u, limit) ==
    LET viewed == BrowsedBy(u)
        valid == viewed \cap Products
        total == [q \in Products |-> Cardinality({ p \in valid : Similarity(p, q) = 1 })]
    IN IF viewed = {} \/ valid = {} THEN get_trending_products(u, limit)
       ELSE Take(ByKeyDesc(Ascending(Products), total, Cardinality(valid)), limit)

\* user is None for an id without a user row, and user.device raises; the
\* generator turns it into a failure
PersonalizedRaises(u) == u \notin Users

get_personalized_recommendations(u, limit) ==
    LET matches == Take(RowsIn({ p \in Products : MetaDevice(p) = Device(u) }), limit * 2)
    IN IF matches = <<>> THEN get_trending_products(u, limit) ELSE Take(matches, limit)

get_contextual_recommendations(u, limit) ==
    IF RelevantCategories = {} THEN get_trending_products(u, limit)
    ELSE Take(RowsIn({ p \in Products : Category(p) \in RelevantCategories }), limit)

\* isinstance(product_inv_map[i], int): the map holds numpy.int64 values, which
\* are not instances of int
IsPythonInt(p) == FALSE

SvdFallsBack(u) == purchases = {} \/ (u # None /\ u \notin PurchaseUsers)

SvdRank == Min(SvdMaxRank, Min(Cardinality(PurchaseUsers), Cardinality(PurchasedProducts)) - 1)

\* svds raises for k < 1, and the generator turns it into a failure
SvdRaises(u) == ~SvdFallsBack(u) /\ SvdRank < 1

get_svd_recommendations(u, limit) ==
    IF SvdFallsBack(u) \/ u = None THEN get_trending_products(u, limit)
    ELSE LET recommended_idx == Take(RowsIn(PurchasedProducts), limit)
             recommended_product_ids == SelectSeq(recommended_idx, IsPythonInt)
         IN IF recommended_product_ids = <<>> THEN get_trending_products(u, limit)
            ELSE recommended_product_ids

\* asyncio.gather without return_exceptions: one generator raising fails the call
GatherRaises(u) == PersonalizedRaises(u) \/ SvdRaises(u)

-----------------------------------------------------------------------------
(* enforce_diversity *)

\* category_map after the grouping loop: one entry per category in order of
\* first appearance among the product rows of the candidates
category_map(recommendations) ==
    LET product_details == RowsIn(Range(recommendations) \cap Products)
        firsts == SelectSeq(product_details,
                            LAMBDA p : \A q \in Range(product_details) :
                                          Category(q) = Category(p) =>
                                          \E i, j \in DOMAIN product_details :
                                              /\ product_details[i] = p
                                              /\ product_details[j] = q
                                              /\ i <= j)
    IN [k \in DOMAIN firsts |->
          [category |-> Category(firsts[k]),
           products |-> SelectSeq(product_details,
                                  LAMBDA q : Category(q) = Category(firsts[k]))]]

\* a pass that empties a category group before it moves to the next one
RECURSIVE DrainCategories(_, _, _, _)
DrainCategories(groups, final, limit, i) ==
    IF i > Len(groups) THEN [groups |-> groups, final |-> final]
    ELSE LET products == groups[i].products
         IN IF products = <<>> THEN DrainCategories(groups, final, limit, i + 1)
            ELSE LET final2 == Append(final, Head(products))
                     groups2 == [groups EXCEPT ![i].products = Tail(products)]
                 IN IF Len(final2) >= limit
                    THEN [groups |-> groups2, final |-> final2]
                    ELSE DrainCategories(groups2, final2, limit, i)

\* one execution of the for loop over category_map.items(), from entry i on
RECURSIVE ForCategories(_, _, _, _)
ForCategories(groups, final, limit, i) ==
    IF i > Len(groups) THEN [groups |-> groups, final |-> final]
    ELSE LET products == groups[i].products
             taken == products # <<>>
             final2 == IF taken THEN Append(final, Head(products)) ELSE final
             groups2 == IF taken THEN [groups EXCEPT ![i].products = Tail(products)] ELSE groups
         IN IF Len(final2) >= limit THEN [groups |-> groups2, final |-> final2]
            ELSE ForCategories(groups2, final2, limit, i + 1)

Exhausted(groups) == \A i \in DOMAIN groups : groups[i].products = <<>>

-----------------------------------------------------------------------------
(* The cache: cache_recommendations, get_cached_recommendations *)

RECURSIVE Digits(_)
Digits(n) == IF n < 10 THEN <<48 + n>> ELSE Digits(n \div 10) \o <<48 + (n % 10)>>

IntText(n) == IF n < 0 THEN <<45>> \o Digits(0 - n) ELSE Digits(n)

RECURSIVE Items(_)
Items(r) ==
    IF r = <<>> THEN <<>>
    ELSE IF Len(r) = 1 THEN IntText(r[1])
    ELSE IntText(Head(r)) \o <<44, 32>> \o Items(Tail(r))

\* a serialization that drops the item separator: "[1210]"
DumpsUnseparated(r) == <<91>> \o Flatten([i \in 1..Len(r) |-> IntText(r[i])]) \o <<93>>

\* json.dumps of a list of ints, as character codes: "[1, 2, 10]"
json_dumps(r) == <<91>> \o Items(r) \o <<93>>

\* json.loads of such a text: st = [list, cur, innum, neg]
RECURSIVE Scan(_, _, _)
Scan(t, i, st) ==
    LET close == IF st.innum
                 THEN Append(st.list, IF st.neg THEN 0 - st.cur ELSE st.cur)
                 ELSE st.list
    IN IF i > Len(t) THEN close
       ELSE IF t[i] >= 48 /\ t[i] <= 57
            THEN Scan(t, i + 1, [st EXCEPT !.cur = st.cur * 10 + (t[i] - 48), !.innum = TRUE])
       ELSE IF t[i] = 45 THEN Scan(t, i + 1, [st EXCEPT !.neg = TRUE])
       ELSE Scan(t, i + 1, [list |-> close, cur |-> 0, innum |-> FALSE, neg |-> FALSE])

json_loads(t) == Scan(t, 1, [list |-> <<>>, cur |-> 0, innum |-> FALSE, neg |-> FALSE])

CacheKeys == 0..3
NoEntry == [text |-> <<>>, expires |-> 0]

\* redis setex(key, CACHE_EXPIRATION, json.dumps(recommendations))
cache_recommendations(c, u, r) ==
    [c EXCEPT ![u] = [text |-> json_dumps(r), expires |-> now + CACHE_EXPIRATION]]

\* [some |-> FALSE] is None
get_cached_recommendations(u) ==
    IF cache[u].text # <<>> THEN [some |-> TRUE, list |-> json_loads(cache[u].text)]
    ELSE [some |-> FALSE, list |-> <<>>]

-----------------------------------------------------------------------------
(* get_hybrid_recommendations *)

Callers == {"request", "batch"}
RequestUsers == {None, 1, 2, 3}

IdleCall ==
    [pc |-> "idle", user |-> None, limit |-> 0, groups |-> <<>>, final |-> <<>>,
     outcome |-> "none", value |-> <<>>, hit |-> FALSE, fresh |-> FALSE,
     current |-> FALSE]

\* the call has returned (outcome "list") or raised ("notfound" 404, "error" 500);
\* fresh: the clock has not advanced since; current: nor has the store or the
\* cache been written by anyone else
Returned(u, limit, outcome, value, hit) ==
    [pc |-> "returned", user |-> u, limit |-> limit, groups |-> <<>>, final |-> <<>>,
     outcome |-> outcome, value |-> value, hit |-> hit, fresh |-> TRUE,
     current |-> TRUE]

\* the merged candidates handed to enforce_diversity
combined_recommendations(u, limit) ==
    LET merged == Range(get_user_based_recommendations(u, limit))
                  \cup Range(get_content_based_recommendations(u, limit))
                  \cup Range(get_personalized_recommendations(u, limit))
                  \cup Range(get_contextual_recommendations(u, limit))
                  \cup Range(get_svd_recommendations(u, limit))
        listed == RowsIn(merged)
    IN IF Len(listed) < limit THEN listed \o get_trending_products(u, limit) ELSE listed

\* the call without the lookup of the user row: an id without a row goes on as
\* a user without history
EnterUnchecked(u, limit) ==
    IF u = None THEN Returned(u, limit, "list", get_trending_products(u, limit), FALSE)
    ELSE LET cached == get_cached_recommendations(u)
         IN IF cached.some /\ cached.list # <<>>
            THEN Returned(u, limit, "list", cached.list, TRUE)
            ELSE IF BrowsedBy(u) = {} /\ PurchasedBy(u) = {}
                 THEN Returned(u, limit, "list", get_trending_products(u, limit), FALSE)
            ELSE IF GatherRaises(u) THEN Returned(u, limit, "error", <<>>, FALSE)
            ELSE [pc |-> "diversity", user |-> u, limit |-> limit,
                  groups |-> category_map(combined_recommendations(u, limit)),
                  final |-> <<>>, outcome |-> "none", value |-> <<>>, hit |-> FALSE,
                  fresh |-> FALSE, current |-> FALSE]

\* the call from its entry to the head of the while loop of enforce_diversity
Enter(u, limit) ==
    IF u = None THEN Returned(u, limit, "list", get_trending_products(u, limit), FALSE)
    ELSE LET cached == get_cached_recommendations(u)
         IN IF cached.some /\ cached.list # <<>>
            THEN Returned(u, limit, "list", cached.list, TRUE)
            ELSE IF u \notin Users THEN Returned(u, limit, "notfound", <<>>, FALSE)
            ELSE IF BrowsedBy(u) = {} /\ PurchasedBy(u) = {}
                 THEN Returned(u, limit, "list", get_trending_products(u, limit), FALSE)
            ELSE IF GatherRaises(u) THEN Returned(u, limit, "error", <<>>, FALSE)
            ELSE [pc |-> "diversity", user |-> u, limit |-> limit,
                  groups |-> category_map(combined_recommendations(u, limit)),
                  final |-> <<>>, outcome |-> "none", value |-> <<>>, hit |-> FALSE,
                  fresh |-> FALSE, current |-> FALSE]

\* one iteration of the while loop of enforce_diversity and, once the loop
\* condition fails, the cache write and the return
Iterate(c) ==
    LET r == ForCategories(call[c].groups, call[c].final, call[c].limit, 1)
    IN IF Len(r.final) >= call[c].limit
       THEN [call[c] EXCEPT !.pc = "returned", !.groups = <<>>, !.final = <<>>,
                            !.outcome = "list", !.value = r.final, !.fresh = TRUE,
                            !.current = TRUE]
       ELSE [call[c] EXCEPT !.groups = r.groups, !.final = r.final]

-----------------------------------------------------------------------------
(* Actions *)

\* the store or the cache is written by someone other than the request's call
Outdate(calls) == [calls EXCEPT !["request"].current = FALSE]

\* a caller of the service invokes get_hybrid_recommendations(u, limit)
Recommend(u, limit) ==
    /\ call["request"].pc # "diversity"
    /\ call' = [call EXCEPT !["request"] = Enter(u, limit)]
    /\ UNCHANGED <<store, now, cache, batchpc, queue, expl, direct>>

\* the while loop of enforce_diversity in the request's call
RequestDiversity ==
    /\ call["request"].pc = "diversity"
    /\ LET r == Iterate("request")
       IN /\ call' = [call EXCEPT !["request"] = r]
          /\ cache' = IF r.pc = "returned"
                      THEN cache_recommendations(cache, r.user, r.value)
                      ELSE cache
    /\ UNCHANGED <<store, now, batchpc, queue, expl, direct>>

\* the scheduler starts precompute_recommendations: the user ids are read
BatchStart ==
    /\ batchpc # "running"
    /\ batchpc' = "running"
    /\ queue' = UserRows
    /\ UNCHANGED <<store, now, cache, call, expl, direct>>

\* what the for loop of precompute_recommendations does with a finished call r,
\* c being the cache as the call left it
BatchAfter(r, c) ==
    IF r.outcome = "list"
    THEN /\ cache' = cache_recommendations(c, r.user, r.value)
         /\ queue' = Tail(queue)
         /\ batchpc' = IF Tail(queue) = <<>> THEN "done" ELSE "running"
    ELSE /\ batchpc' = "aborted"
         /\ cache' = c
         /\ UNCHANGED queue

\* precompute_recommendations calls the aggregator for the next user
BatchCall ==
    /\ batchpc = "running"
    /\ queue # <<>>
    /\ call["batch"].pc = "idle"
    /\ LET r == Enter(Head(queue), BatchLimit)
       IN IF r.pc = "returned"
          THEN /\ BatchAfter(r, cache)
               /\ call' = IF r.outcome = "list" THEN Outdate(call) ELSE call
          ELSE /\ call' = [call EXCEPT !["batch"] = r]
               /\ UNCHANGED <<cache, batchpc, queue>>
    /\ UNCHANGED <<store, now, expl, direct>>

\* the while loop of enforce_diversity in the batch's call
BatchDiversity ==
    /\ call["batch"].pc = "diversity"
    /\ LET r == Iterate("batch")
       IN IF r.pc = "returned"
          THEN /\ BatchAfter(r, cache_recommendations(cache, r.user, r.value))
               /\ call' = Outdate([call EXCEPT !["batch"] = IdleCall])
          ELSE /\ call' = [call EXCEPT !["batch"] = r]
               /\ UNCHANGED <<cache, batchpc, queue>>
    /\ UNCHANGED <<store, now, expl, direct>>

\* the purchase rows the store holds from the start
SeedPurchases == { [user |-> 2, product |-> 2, ts |-> 0] }

\* a purchase is recorded in the store by the shop
AddPurchase(u, p) ==
    /\ Cardinality(purchases) < MaxPurchases
    /\ purchases' = purchases \cup {[user |-> u, product |-> p, ts |-> DayOf(now)]}
    /\ call' = Outdate(call)
    /\ UNCHANGED <<browsing, interactions, rowOrder, today, now, cache,
                   batchpc, queue, expl, direct>>

\* time passes; redis drops the entries whose expiry is reached
Tick ==
    /\ now < MaxTicks * TickSeconds
    /\ now' = now + TickSeconds
    /\ cache' = [k \in CacheKeys |->
                   IF cache[k].expires <= now' THEN NoEntry ELSE cache[k]]
    /\ call' = [c \in Callers |->
                  [call[c] EXCEPT !.fresh = FALSE, !.current = FALSE]]
    /\ UNCHANGED <<store, batchpc, queue, expl, direct>>

-----------------------------------------------------------------------------
(* The service with its batch job *)

EventProducts == {1, 2}

RowOrders == { [i \in Products |-> i] }
Dates == { [month |-> 1, day |-> 15, weekday |-> "Wednesday"] }

NoExplain == [called |-> FALSE, user |-> None, product |-> 0, found |-> FALSE, text |-> ""]

\* no generator and no cache function has been called directly
NoDirect ==
    [op |-> "none", user |-> None, limit |-> 0, list |-> <<>>, at |-> 0,
     outcome |-> "none", value |-> <<>>]

Init ==
    /\ purchases = SeedPurchases
    /\ browsing = {[user |-> 2, product |-> 3]}
    /\ interactions = {[user |-> 2, product |-> 4]}
    /\ rowOrder \in RowOrders
    /\ today \in Dates
    /\ now = 0
    /\ cache = [k \in CacheKeys |-> NoEntry]
    /\ call = [c \in Callers |-> IdleCall]
    /\ batchpc = "idle"
    /\ queue = <<>>
    /\ expl = NoExplain
    /\ direct = NoDirect

Next ==
    \/ \E u \in RequestUsers, limit \in 1..MaxLimit : Recommend(u, limit)
    \/ RequestDiversity
    \/ BatchStart
    \/ BatchCall
    \/ BatchDiversity
    \/ \E u \in Users, p \in EventProducts : AddPurchase(u, p)
    \/ Tick

Spec == Init /\ [][Next]_vars

\* the service as anonymous callers meet it: their calls, the batch job that
\* fills the cache, the shop and the clock
NextAnonymous ==
    \/ \E limit \in 1..MaxLimit : Recommend(None, limit)
    \/ BatchStart
    \/ BatchCall
    \/ BatchDiversity
    \/ \E u \in Users, p \in EventProducts : AddPurchase(u, p)
    \/ Tick

SpecAnonymous == Init /\ [][NextAnonymous]_vars

\* the service as callers without a user row meet it: the anonymous caller and
\* the caller whose id is in no row of users
NextUnknown ==
    \/ \E u \in RequestUsers \ Users, limit \in 1..MaxLimit : Recommend(u, limit)
    \/ BatchStart
    \/ BatchCall
    \/ BatchDiversity
    \/ \E u \in Users, p \in EventProducts : AddPurchase(u, p)
    \/ Tick

SpecUnknown == Init /\ [][NextUnknown]_vars

\* the writers of the cache on one snapshot of the store: requests and batch
\* passes while no row is added and no entry expires
InitWriters ==
    /\ purchases = SeedPurchases \cup { [user |-> 1, product |-> 1, ts |-> 0] }
    /\ browsing = {[user |-> 2, product |-> 3]}
    /\ interactions = {[user |-> 2, product |-> 4]}
    /\ rowOrder \in RowOrders
    /\ today \in Dates
    /\ now = 0
    /\ cache = [k \in CacheKeys |-> NoEntry]
    /\ call = [c \in Callers |-> IdleCall]
    /\ batchpc = "idle"
    /\ queue = <<>>
    /\ expl = NoExplain
    /\ direct = NoDirect

NextWriters ==
    \/ \E u \in Users, limit \in 1..MaxLimit : Recommend(u, limit)
    \/ RequestDiversity
    \/ BatchStart
    \/ BatchCall
    \/ BatchDiversity

SpecWriters == InitWriters /\ [][NextWriters]_vars

-----------------------------------------------------------------------------
(* enforce_diversity alone, on every candidate list *)

\* the ids of S in ascending order, as the list handed to enforce_diversity
Listing(S) == SelectSeq([i \in 1..(MaxCandidate + 1) |-> i - 1], LAMBDA p : p \in S)

InitDiv ==
    /\ purchases = {}
    /\ browsing = {}
    /\ interactions = {}
    /\ rowOrder \in RowOrders
    /\ today \in Dates
    /\ now = 0
    /\ cache = [k \in CacheKeys |-> NoEntry]
    /\ \E S \in SUBSET (0..MaxCandidate), limit \in 1..MaxDivLimit :
          call = [c \in Callers |->
                    IF c = "request"
                    THEN [IdleCall EXCEPT !.pc = "diversity", !.user = 1, !.limit = limit,
                                          !.groups = category_map(Listing(S))]
                    ELSE IdleCall]
    /\ batchpc = "idle"
    /\ queue = <<>>
    /\ expl = NoExplain
    /\ direct = NoDirect

NextDiv == RequestDiversity

SpecDiv == InitDiv /\ [][NextDiv]_vars

-----------------------------------------------------------------------------
(* explain_recommendation *)

UserName(u) == IF u = 1 THEN "User1" ELSE "User2"

\* Python truthiness of an optional user id
Truthy(u) == u # None /\ u # 0

\* ", ".join(names)
RECURSIVE JoinNames(_)
JoinNames(us) ==
    IF us = <<>> THEN ""
    ELSE IF Len(us) = 1 THEN UserName(us[1])
    ELSE UserName(Head(us)) \o ", " \o JoinNames(Tail(us))

\* " ".join(parts)
RECURSIVE JoinParts(_)
JoinParts(parts) ==
    IF parts = <<>> THEN ""
    ELSE IF Len(parts) = 1 THEN parts[1]
    ELSE Head(parts) \o " " \o JoinParts(Tail(parts))

\* the fragments with the contextual one put first
ContextFirstParts(u, p) ==
    LET purchased == PurchasedBy(u)
        similar_user_ids == { e.user : e \in { x \in purchases : x.product \in purchased } } \ {u}
        similar_users_purchased ==
            SelectSeq(UserRows, LAMBDA v : v \in similar_user_ids /\ p \in PurchasedBy(v))
        own == IF ~Truthy(u) THEN <<>>
               ELSE (IF p \in purchased
                     THEN <<"Recommended because you have shown interest in similar products.">>
                     ELSE <<>>)
                    \o (IF similar_users_purchased # <<>>
                        THEN <<"Recommended because users similar to you ("
                               \o JoinNames(similar_users_purchased) \o ") purchased this.">>
                        ELSE <<>>)
                    \o (IF p \in BrowsedBy(u)
                        THEN <<"Recommended because you have viewed similar products.">>
                        ELSE <<>>)
        context == IF RelevantCategories # {} /\ Category(p) \in RelevantCategories
                   THEN <<"Recommended based on current trends: " \o today.weekday
                          \o " and " \o current_season \o ".">>
                   ELSE <<>>
        parts == context \o own
    IN IF parts = <<>> THEN <<"Recommended based on trending and popular products.">>
       ELSE parts

explanation_parts(u, p) ==
    LET purchased == PurchasedBy(u)
        similar_user_ids == { e.user : e \in { x \in purchases : x.product \in purchased } } \ {u}
        similar_users_purchased ==
            SelectSeq(UserRows, LAMBDA v : v \in similar_user_ids /\ p \in PurchasedBy(v))
        own == IF ~Truthy(u) THEN <<>>
               ELSE (IF p \in purchased
                     THEN <<"Recommended because you have shown interest in similar products.">>
                     ELSE <<>>)
                    \o (IF similar_users_purchased # <<>>
                        THEN <<"Recommended because users similar to you ("
                               \o JoinNames(similar_users_purchased) \o ") purchased this.">>
                        ELSE <<>>)
                    \o (IF p \in BrowsedBy(u)
                        THEN <<"Recommended because you have viewed similar products.">>
                        ELSE <<>>)
        context == IF RelevantCategories # {} /\ Category(p) \in RelevantCategories
                   THEN <<"Recommended based on current trends: " \o today.weekday
                          \o " and " \o current_season \o ".">>
                   ELSE <<>>
        parts == own \o context
    IN IF parts = <<>> THEN <<"Recommended based on trending and popular products.">>
       ELSE parts

\* [found |-> FALSE] is the None the function returns
explain_recommendation(u, p) ==
    LET user == Truthy(u) /\ u \in Users
        product == p \in Products
    IN IF ~product \/ (Truthy(u) /\ ~user)
       THEN [called |-> TRUE, user |-> u, product |-> p, found |-> FALSE, text |-> ""]
       ELSE [called |-> TRUE, user |-> u, product |-> p, found |-> TRUE,
             text |-> JoinParts(explanation_parts(u, p))]

Explain(u, p) ==
    /\ expl' = explain_recommendation(u, p)
    /\ UNCHANGED <<store, now, cache, call, batchpc, queue, direct>>

ExplainUsers == {None, 0, 1, 2, 3}
ExplainProducts == {1, 2, 3, 11}

ExplainDates ==
    { [month |-> 1, day |-> 15, weekday |-> "Wednesday"],
      [month |-> 7, day |-> 18, weekday |-> "Saturday"],
      [month |-> 10, day |-> 13, weekday |-> "Tuesday"] }

PurchaseRows == { [user |-> u, product |-> p, ts |-> 0] : u \in Users, p \in EventProducts }
BrowsingRows == { [user |-> u, product |-> p] : u \in Users, p \in EventProducts }

InitExplain ==
    /\ purchases \in { P \in SUBSET PurchaseRows : Cardinality(P) <= MaxPurchases }
    /\ browsing \in { B \in SUBSET BrowsingRows : Cardinality(B) <= 1 }
    /\ interactions = {}
    /\ rowOrder \in RowOrders
    /\ today \in ExplainDates
    /\ now = 0
    /\ cache = [k \in CacheKeys |-> NoEntry]
    /\ call = [c \in Callers |-> IdleCall]
    /\ batchpc = "idle"
    /\ queue = <<>>
    /\ expl = NoExplain
    /\ direct = NoDirect

NextExplain == \E u \in ExplainUsers, p \in ExplainProducts : Explain(u, p)

SpecExplain == InitExplain /\ [][NextExplain]_vars

-----------------------------------------------------------------------------
(* The generators called directly *)

Generators == {"user_based", "content_based", "personalized", "contextual", "svd"}

\* what a direct call of a function of services.py gives its caller: its list,
\* or the HTTPException(500) its except clause raises
Generate(g, u, limit) ==
    LET out(raises, v) == IF raises THEN [outcome |-> "error", value |-> <<>>]
                          ELSE [outcome |-> "list", value |-> v]
    IN CASE g = "trending" -> out(FALSE, get_trending_products(u, limit))
         [] g = "user_based" -> out(FALSE, get_user_based_recommendations(u, limit))
         [] g = "content_based" -> out(FALSE, get_content_based_recommendations(u, limit))
         [] g = "personalized" ->
                out(PersonalizedRaises(u),
                    IF PersonalizedRaises(u) THEN <<>>
                    ELSE get_personalized_recommendations(u, limit))
         [] g = "contextual" -> out(FALSE, get_contextual_recommendations(u, limit))
         [] g = "svd" ->
                out(SvdRaises(u),
                    IF SvdRaises(u) THEN <<>> ELSE get_svd_recommendations(u, limit))

CallGenerator(g, u, limit) ==
    /\ direct' = [NoDirect EXCEPT !.op = g, !.user = u, !.limit = limit,
                                   !.outcome = Generate(g, u, limit).outcome,
                                   !.value = Generate(g, u, limit).value]
    /\ UNCHANGED <<store, now, cache, call, batchpc, queue, expl>>

\* the clock of the stores the generators are called on: one day past the window
GenNow == TrendingWindow + DaySeconds

\* purchase rows of the day, and one row older than the window
GenPurchaseRows ==
    { [user |-> u, product |-> p, ts |-> GenNow] : u \in Users, p \in EventProducts }
        \cup { [user |-> 1, product |-> 1, ts |-> 0] }

\* row orders of an unordered query: by id, and by id backwards
GenRowOrders == { [i \in Products |-> i], [i \in Products |-> Cardinality(Products) + 1 - i] }

GenDates ==
    { [month |-> 1, day |-> 15, weekday |-> "Wednesday"],
      [month |-> 10, day |-> 13, weekday |-> "Tuesday"] }

InitGen ==
    /\ purchases \in { P \in SUBSET GenPurchaseRows : Cardinality(P) <= MaxPurchases }
    /\ browsing \in { B \in SUBSET BrowsingRows : Cardinality(B) <= 1 }
    /\ interactions = {}
    /\ rowOrder \in GenRowOrders
    /\ today \in GenDates
    /\ now = GenNow
    /\ cache = [k \in CacheKeys |-> NoEntry]
    /\ call = [c \in Callers |-> IdleCall]
    /\ batchpc = "idle"
    /\ queue = <<>>
    /\ expl = NoExplain
    /\ direct = NoDirect

\* one call on each store drawn
NextGen ==
    \E g \in Generators \cup {"trending"}, u \in RequestUsers, limit \in 1..MaxLimit :
        direct = NoDirect /\ CallGenerator(g, u, limit)

SpecGen == InitGen /\ [][NextGen]_vars

-----------------------------------------------------------------------------
(* The cache alone: a write, the passing of time, a read *)

MaxListLen == 2

ListItems == {0 - 3, 7, 12}

RECURSIVE ListsUpTo(_)
ListsUpTo(n) ==
    IF n = 0 THEN { <<>> }
    ELSE ListsUpTo(n - 1)
             \cup { Append(r, i) : r \in { q \in ListsUpTo(n - 1) : Len(q) = n - 1 },
                                   i \in ListItems }

\* an entry written at time 0 by an earlier call
OldEntry == [text |-> json_dumps(<<5>>), expires |-> CACHE_EXPIRATION]

CachePut(u, r) ==
    /\ direct.op = "none"
    /\ cache' = cache_recommendations(cache, u, r)
    /\ direct' = [NoDirect EXCEPT !.op = "put", !.user = u, !.list = r, !.at = now]
    /\ UNCHANGED <<store, now, call, batchpc, queue, expl>>

CacheGet(u) ==
    /\ direct.op = "put"
    /\ direct' = [direct EXCEPT
                    !.op = "get",
                    !.outcome = IF get_cached_recommendations(u).some THEN "list" ELSE "none",
                    !.value = get_cached_recommendations(u).list]
    /\ UNCHANGED <<store, now, cache, call, batchpc, queue, expl>>

InitCache ==
    /\ purchases = {}
    /\ browsing = {}
    /\ interactions = {}
    /\ rowOrder = [i \in Products |-> i]
    /\ today \in Dates
    /\ now = 0
    /\ cache \in [CacheKeys -> {NoEntry, OldEntry}]
    /\ call = [c \in Callers |-> IdleCall]
    /\ batchpc = "idle"
    /\ queue = <<>>
    /\ expl = NoExplain
    /\ direct = NoDirect

NextCache ==
    \/ \E u \in CacheKeys, r \in ListsUpTo(MaxListLen) : CachePut(u, r)
    \/ Tick
    \/ \E u \in {direct.user} : CacheGet(u)

SpecCache == InitCache /\ [][NextCache]_vars

-----------------------------------------------------------------------------
(* get_current_season alone, on every date of the calendar *)

Weekdays ==
    {"Monday", "Tuesday", "Wednesday", "Thursday", "Friday", "Saturday", "Sunday"}

DaysIn(month) ==
    IF month = 2 THEN 29 ELSE IF month \in {4, 6, 9, 11} THEN 30 ELSE 31

CalendarDates ==
    { [month |-> m, day |-> d, weekday |-> w] :
          m \in 1..12, d \in 1..31, w \in Weekdays }

\* the label get_current_season returns is kept in direct.outcome
CallSeason ==
    /\ direct = NoDirect
    /\ direct' = [NoDirect EXCEPT !.op = "season", !.outcome = current_season]
    /\ UNCHANGED <<store, now, cache, call, batchpc, queue, expl>>

InitSeason ==
    /\ purchases = {}
    /\ browsing = {}
    /\ interactions = {}
    /\ rowOrder = [i \in Products |-> i]
    /\ today \in { t \in CalendarDates : t.day <= DaysIn(t.month) }
    /\ now = 0
    /\ cache = [k \in CacheKeys |-> NoEntry]
    /\ call = [c \in Callers |-> IdleCall]
    /\ batchpc = "idle"
    /\ queue = <<>>
    /\ expl = NoExplain
    /\ direct = NoDirect

NextSeason == CallSeason

SpecSeason == InitSeason /\ [][NextSeason]_vars

-----------------------------------------------------------------------------
(* Claims *)

req == call["request"]

\* a step in which get_hybrid_recommendations is called for the request
Enters == req.pc # "diversity" /\ req' # req /\ (req'.current \/ req'.pc = "diversity")

\* a step in which the request's call returns or raises
Returns == req' # req /\ req'.pc = "returned" /\ req'.current

HasHistory(u) == BrowsedBy(u) # {} \/ PurchasedBy(u) # {}

CountIn(v, cat) == Cardinality({ i \in DOMAIN v : Category(v[i]) = cat })

CeilDiv(a, b) == (a + b - 1) \div b

\* C1: whatever the cache holds, a list returned by get_hybrid_recommendations(U, L)
\* has at most L identifiers and repeats none
C1_AtMostLimitNoDuplicates ==
    (req.pc = "returned" /\ req.outcome = "list")
        => (Len(req.value) <= req.limit /\ IsDistinct(req.value))

\* C2: the round-robin loop of enforce_diversity stops once every category group
\* is exhausted: it is never at the head of the loop short of `limit` items with
\* nothing left to take
C2_LoopStopsWhenExhausted ==
    \A c \in Callers :
        call[c].pc = "diversity"
            => ~(Exhausted(call[c].groups) /\ Len(call[c].final) < call[c].limit)

\* C3: a known user's recommend(U, L) that returned a list, issued again before
\* the clock has advanced, returns the same list from the cache, whatever
\* purchases were added in between
C3_SecondCallIsCacheHit ==
    [][ ( /\ req.pc = "returned" /\ req.outcome = "list" /\ req.user \in Users
          /\ req.fresh
          /\ Enters
          /\ req'.user = req.user /\ req'.limit = req.limit )
        => ( /\ req'.pc = "returned" /\ req'.outcome = "list"
             /\ req'.hit /\ req'.value = req.value ) ]_vars

\* C5: a list computed on a cache miss for a user with history holds no product
\* the user has purchased, browsed or interacted with
C5_NoInteractedProduct ==
    [][ ( /\ Returns /\ req'.outcome = "list" /\ ~req'.hit
          /\ req'.user \in Users /\ HasHistory(req'.user) )
        => Range(req'.value) \cap get_interacted_product_ids(req'.user) = {} ]_vars

\* v is the trending ranking at limit: the products bought inside the window and
\* outside excl, most bought first, cut at limit
IsTrendingRanking(v, limit, excl) ==
    LET eligible == { p \in Products : RecentCount(p) > 0 /\ p \notin excl }
    IN /\ IsDistinct(v)
       /\ Range(v) \subseteq eligible
       /\ Len(v) = Min(limit, Cardinality(eligible))
       /\ \A i, j \in DOMAIN v : i < j => RecentCount(v[i]) >= RecentCount(v[j])
       /\ \A p \in eligible \ Range(v) : \A i \in DOMAIN v : RecentCount(v[i]) >= RecentCount(p)

\* C6: an existing user without browsing and purchase rows gets the trending
\* ranking of the store as it is, whatever the cache holds
C6_ColdStartGetsTrending ==
    [][ ( /\ Returns /\ req'.user \in Users /\ ~HasHistory(req'.user) )
        => ( /\ req'.outcome = "list"
             /\ IsTrendingRanking(req'.value, req'.limit,
                                  get_interacted_product_ids(req'.user)) ) ]_vars

\* C7: recommend(None, L) returns the trending ranking with nothing excluded,
\* not from the cache, and leaves the cache as it was, whatever the batch job
\* has put in the cache (under Spec, with the users' own requests, as well)
C7_AnonymousBypassesCache ==
    [][ ( Enters /\ req'.user = None )
        => ( /\ req'.pc = "returned" /\ req'.outcome = "list" /\ ~req'.hit
             /\ IsTrendingRanking(req'.value, req'.limit, {})
             /\ cache' = cache ) ]_vars

\* an anonymous call has returned the most bought of two products in the
\* window, cut at limit 1, while the cache holds an entry
C7_Witness ==
    /\ req.pc = "returned" /\ req.user = None /\ req.current
    /\ Len(req.value) = 1
    /\ \E p \in Products \ Range(req.value) :
          /\ RecentCount(p) > 0
          /\ RecentCount(p) < RecentCount(req.value[1])
    /\ \E k \in CacheKeys : cache[k] # NoEntry

\* C9: a failing generator is absorbed: recommend never surfaces the failure
C9_GeneratorFailureAbsorbed == req.outcome # "error"

\* C10: a failure for one user stops the pass only if no user comes after it
C10_PassGoesOn == batchpc = "aborted" => Tail(queue) = <<>>

\* groups[j] held fewer than m candidates when the loop started, value being
\* the list returned from the state with these groups
HeldFewer(groups, value, j, m) ==
    LET left == groups[j].products
        after == IF left # <<>> /\ Head(left) \in Range(value) THEN Len(left) - 1 ELSE Len(left)
    IN CountIn(value, groups[j].category) + after < m

\* C4 as stated: with two or more categories among the candidates, no category
\* contributes more than ceil(L / C) items
C4_CategoryShare ==
    [][ ( Returns /\ req'.outcome = "list" /\ ~req'.hit /\ Len(req.groups) >= 2 )
        => \A i \in DOMAIN req.groups :
              CountIn(req'.value, req.groups[i].category)
                  <= CeilDiv(req.limit, Len(req.groups)) ]_vars

\* C4 amended: a category contributes more than ceil(L / C) items only if some
\* other category group held fewer than ceil(L / C) candidates
C4_CategoryShareUnlessShortGroup ==
    [][ ( Returns /\ req'.outcome = "list" /\ ~req'.hit /\ Len(req.groups) >= 2 )
        => \A i \in DOMAIN req.groups :
              \/ CountIn(req'.value, req.groups[i].category)
                     <= CeilDiv(req.limit, Len(req.groups))
              \/ \E j \in DOMAIN req.groups :
                    /\ j # i
                    /\ HeldFewer(req.groups, req'.value, j,
                                 CeilDiv(req.limit, Len(req.groups))) ]_vars

\* enforce_diversity has returned a full list over two categories, one of them
\* with more than half of the items
C4_Witness ==
    /\ req.pc = "returned" /\ req.outcome = "list"
    /\ Len(req.value) = 4
    /\ Cardinality({ Category(req.value[i]) : i \in DOMAIN req.value }) = 2
    /\ \E i \in DOMAIN req.value : CountIn(req.value, Category(req.value[i])) = 3

\* C8: explain_recommendation returns None exactly when the product does not
\* exist or a given user does not, and a non-empty text otherwise
C8_NotFoundIff ==
    expl.called =>
        /\ ~expl.found <=> (expl.product \notin Products
                            \/ (expl.user # None /\ expl.user \notin Users))
        /\ expl.found => expl.text # ""


\* the user has nothing a generator can work from
NoEvidence(g, u) ==
    CASE g = "user_based" -> \A e \in purchases : e.user # u
      [] g = "svd" -> \A e \in purchases : e.user # u
      [] g = "content_based" -> \A e \in browsing : e.user # u
      [] g = "personalized" -> \A p \in Products : MetaDevice(p) # Device(u)
      [] g = "contextual" ->
            \A x \in Signals : today.weekday \notin x.peak_days /\ x.season # current_season

\* C11: each of the five generators, called with an id that is no user's or for
\* a user without evidence for it, returns the trending ranking and does not raise
C11_GeneratorsFallBack ==
    (direct.op \in Generators
        /\ (direct.user \notin Users \/ NoEvidence(direct.op, direct.user)))
    => (direct.outcome = "list"
        /\ IsTrendingRanking(direct.value, direct.limit,
                             get_interacted_product_ids(direct.user)))


\* C12: a read of user u's entry after cache_recommendations(u, r) and before the
\* expiry returns a list equal to r, the empty list included, and the write
\* leaves the entries of the other users as they were
C12_CacheRoundTrip ==
    [][ /\ (direct.op = "none" /\ direct'.op = "put")
            => \A k \in CacheKeys \ {direct'.user} : cache'[k] = cache[k]
        /\ (direct.op = "put" /\ direct'.op = "get" /\ now < direct.at + CACHE_EXPIRATION)
            => (direct'.outcome = "list" /\ direct'.value = direct.list) ]_vars

C12_Witness ==
    /\ direct.op = "get"
    /\ Len(direct.list) >= 2
    /\ now > direct.at
    /\ direct.outcome = "list"
    /\ direct.value = direct.list
    /\ \E k \in CacheKeys \ {direct.user} : cache[k] # NoEntry


\* C13: get_hybrid_recommendations called with an id that is in no row of users
\* raises not-found, returns no list and leaves the cache as it was, whatever
\* the cache holds at the call (the cache is written for ids of users only, and
\* no row of users is ever removed)
C13_UnknownUserNotFound ==
    [][ (Enters /\ req'.user # None /\ req'.user \notin Users)
            => (/\ req'.pc = "returned"
                /\ req'.outcome = "notfound"
                /\ req'.value = <<>>
                /\ cache' = cache) ]_vars

C13_Witness ==
    /\ req.pc = "returned"
    /\ req.current
    /\ req.user # None
    /\ req.user \notin Users
    /\ req.outcome = "notfound"
    /\ \E k \in CacheKeys : cache[k] # NoEntry


\* the products the catalog can supply to u: all but those u has interacted with
Supply(u) ==
    Cardinality(Products \ (IF u = None THEN {} ELSE get_interacted_product_ids(u)))

\* C14: a list returned by get_hybrid_recommendations(U, L) has at least
\* min(L, N) items, N being the number of products the catalog can supply
C14_NeverFewerThanCatalog ==
    (req.pc = "returned" /\ req.outcome = "list" /\ req.current)
        => Len(req.value) >= Min(req.limit, Supply(req.user))


\* p is ranked before q: more purchases in the window or, with as many, the
\* smaller id
RankedBefore(p, q) ==
    \/ RecentCount(p) > RecentCount(q)
    \/ (RecentCount(p) = RecentCount(q) /\ p < q)

\* C15: get_trending_products(U, L) returns the first L products of the ranking
\* of the products bought in the trailing 30 days that U has not interacted with,
\* by purchase count descending and, among equal counts, by id ascending
C15_TrendingTieBreakById ==
    direct.op = "trending"
        => (/\ direct.outcome = "list"
            /\ IsTrendingRanking(direct.value, direct.limit,
                                 get_interacted_product_ids(direct.user))
            /\ \A i, j \in DOMAIN direct.value :
                   i < j => RankedBefore(direct.value[i], direct.value[j])
            /\ \A p \in Products :
                   (/\ RecentCount(p) > 0
                    /\ p \notin get_interacted_product_ids(direct.user)
                    /\ p \notin Range(direct.value))
                       => \A i \in DOMAIN direct.value : RankedBefore(direct.value[i], p))


\* a call for u that was computing its list leaves the loop of enforce_diversity
DerivedFor(u) ==
    \E c \in Callers :
        call[c].pc = "diversity" /\ call[c].user = u /\ call'[c].pc # "diversity"

\* C16: the cache entry of a user that holds a list is written again only by
\* a computation of the pipeline that returns: no call of the service and no
\* batch pass that finds the list in the cache writes the entry, so the expiry of
\* a cached list stays one TTL after its derivation
C16_HitDoesNotRewrite ==
    [][ \A u \in Users :
          (/\ cache[u] # NoEntry
           /\ get_cached_recommendations(u).list # <<>>
           /\ cache'[u] # cache[u]
           /\ now' = now)
              => DerivedFor(u) ]_vars


\* C17: on one snapshot of the store every writer of the cache entry of a user
\* writes the same value, whatever limit the writer was called with: a write
\* over an entry leaves its text as it was
C17_WritersWriteSameValue ==
    [][ \A u \in Users :
          (cache[u] # NoEntry /\ cache'[u] # NoEntry /\ store' = store)
              => cache'[u].text = cache[u].text ]_vars


\* fragment k of an explanation matches for user u and product p
FragmentMatches(k, u, p) ==
    CASE k = 1 -> u # None /\ \E e \in purchases : e.user = u /\ e.product = p
      [] k = 2 -> u # None /\ \E v \in Users \ {u} :
                     /\ \E e \in purchases : e.user = v /\ e.product = p
                     /\ \E e, f \in purchases :
                           e.user = u /\ f.user = v /\ e.product = f.product
      [] k = 3 -> u # None /\ \E b \in browsing : b.user = u /\ b.product = p
      [] k = 4 -> \E s \in Signals :
                     /\ s.category = Category(p)
                     /\ (today.weekday \in s.peak_days \/ s.season = current_season)

SharingBuyers(u, p) ==
    SelectSeq(UserRows, LAMBDA v :
        /\ v # u
        /\ \E e \in purchases : e.user = v /\ e.product = p
        /\ \E e, f \in purchases : e.user = u /\ f.user = v /\ e.product = f.product)

FragmentText(k, u, p) ==
    CASE k = 1 -> "Recommended because you have shown interest in similar products."
      [] k = 2 -> "Recommended because users similar to you ("
                      \o JoinNames(SharingBuyers(u, p)) \o ") purchased this."
      [] k = 3 -> "Recommended because you have viewed similar products."
      [] k = 4 -> "Recommended based on current trends: " \o today.weekday
                      \o " and " \o current_season \o "."

MatchedFragments(u, p) == SelectSeq(<<1, 2, 3, 4>>, LAMBDA k : FragmentMatches(k, u, p))

ExpectedText(u, p) ==
    LET m == MatchedFragments(u, p)
    IN IF m = <<>> THEN "Recommended based on trending and popular products."
       ELSE JoinParts([i \in 1..Len(m) |-> FragmentText(m[i], u, p)])

\* C18: for an existing product and an existing user or the anonymous caller,
\* explain_recommendation returns the matching fragments joined in the order
\* purchased, bought by a user sharing purchases, browsed, contextual; the
\* generic sentence exactly when none matches; for the anonymous caller only
\* the contextual fragment counts
C18_FragmentsInFixedOrder ==
    (expl.called /\ expl.product \in Products
        /\ (expl.user = None \/ expl.user \in Users))
        => (expl.found /\ expl.text = ExpectedText(expl.user, expl.product))

C18_Witness ==
    /\ expl.called
    /\ expl.found
    /\ expl.user \in Users
    /\ MatchedFragments(expl.user, expl.product) = <<1, 2, 3, 4>>
    /\ expl.text = ExpectedText(expl.user, expl.product)


\* C19: get_user_based_recommendations(U, L) for a user with purchases selects
\* its neighbours among the other users only, also when another user's row is
\* as similar to U's as U's own, and draws its candidates from their purchases;
\* for a user without purchases it returns the trending ranking
C19_NeighboursExcludeSelf ==
    (direct.op = "user_based" /\ direct.user \in Users)
        => /\ direct.outcome = "list"
           /\ IF PurchasedBy(direct.user) = {}
              THEN IsTrendingRanking(direct.value, direct.limit,
                                     get_interacted_product_ids(direct.user))
              ELSE /\ direct.user \notin similar_users(direct.user, direct.limit)
                   /\ Range(direct.value)
                          \subseteq { e.product : e \in { x \in purchases : x.user # direct.user } }


\* C20: get_svd_recommendations(U, L) on a purchase matrix that holds U, a
\* matrix of one user or one product included, does not raise and returns the
\* first L columns of the predicted ranking mapped back to product ids: as many
\* ids as min(L, number of columns), all of them products of the matrix
C20_SvdOnSmallMatrix ==
    (direct.op = "svd" /\ direct.user \in PurchaseUsers)
        => /\ direct.outcome = "list"
           /\ IsDistinct(direct.value)
           /\ Range(direct.value) \subseteq PurchasedProducts
           /\ Len(direct.value) = Min(direct.limit, Cardinality(PurchasedProducts))


\* the special event of a date, "none" on the dates of no event
EventOf(month, day, weekday) ==
    IF month = 12 /\ day >= 24 /\ day <= 26 THEN "Christmas"
    ELSE IF month = 11 /\ day >= 22 /\ day <= 28 /\ weekday = "Thursday" THEN "Thanksgiving"
    ELSE IF month = 10 /\ day = 31 THEN "Halloween"
    ELSE "none"

\* the season of a date: Winter from December 21, Spring from March 20, Summer
\* from June 21, Fall from September 22
SeasonOf(month, day) ==
    IF month \in {1, 2} \/ (month = 3 /\ day < 20) \/ (month = 12 /\ day >= 21) THEN "Winter"
    ELSE IF month \in {4, 5} \/ (month = 3 /\ day >= 20) \/ (month = 6 /\ day < 21) THEN "Spring"
    ELSE IF month \in {7, 8} \/ (month = 6 /\ day >= 21) \/ (month = 9 /\ day < 22) THEN "Summer"
    ELSE "Fall"

\* C21: on every date get_current_season returns the label of a special event
\* only on the dates of that event (Christmas December 24 to 26, Halloween
\* October 31, Thanksgiving a Thursday of November 22 to 28), the event before
\* the season on those dates, and the season of the date on every other date,
\* never "Unknown"
C21_SeasonOrEventOnItsDates ==
    direct.op = "season"
        => LET event == EventOf(today.month, today.day, today.weekday)
           IN direct.outcome = IF event # "none" THEN event
                               ELSE SeasonOf(today.month, today.day)

=============================================================================
